---- MODULE Spec2Model ----
(***************************************************************************)
(* The OHNM loss engine of deep_fundamental: the two loss strategies       *)
(*   OHNMClassicImipLoss (Variant A, probability / NLL form) and           *)
(*   OHNMBCELoss         (Variant B, logit / BCE form),                    *)
(* each one call forward_with_log_data(maximizer_outputs,                  *)
(* correspondence_outputs, inlier_labels, outlier_labels).                 *)
(*                                                                         *)
(* Real numbers are fixed-point integers in units of 1e-4, so that the     *)
(* epsilon floor 1e-4 is the integer 1 and the weight 1.0 is 10000.        *)
(* Tensor indices are 0-based, as in the source.  A tensor is a record     *)
(* [shape, data]: shape a sequence of dimensions, data a function from     *)
(* index tuples (sequences of 0-based indices) to values.                  *)
(***************************************************************************)
EXTENDS Integers, Sequences, FiniteSets, TLC

VARIABLES pc, weights, classic_epsilon, bce_epsilon, args, ret, threads

vars == <<pc, weights, classic_epsilon, bce_epsilon, args, ret, threads>>

\* Bounds of the model: channels C in 1..MaxC, patches per channel N in 1..MaxN,
\* and MaxThreads concurrent callers of one Variant B instance.
MaxC == 3
MaxN == 2
MaxThreads == 2

\* epsilon: float = 1e-4, in units of 1e-4.
Epsilon == 1

(***************************************************************************)
(* Floating point, in fixed point.                                         *)
(***************************************************************************)

\* The not-a-number float: what -inf + inf gives.  Every arithmetic operator
\* below propagates it.
NaN == 0 - 1000000000

IsNaN(x) == x = NaN

FAdd(x, y) == IF IsNaN(x) \/ IsNaN(y) THEN NaN ELSE x + y

FMul(x, y) == IF IsNaN(x) \/ IsNaN(y) THEN NaN ELSE (x * y) \div 10000

Max(x, y) == IF x >= y THEN x ELSE y

\* The logits the model's tensors hold.
LogitSeq == <<0 - 10, 0 - 2, 0, 2, 10>>

\* torch.sigmoid, rounded to 1e-4 (sigmoid(-10) = 4.5e-5 rounds to 0 and
\* sigmoid(10) to 1: the values the epsilon floor is there for).
Sigmoid(x) ==
  CASE x = 0 - 10 -> 0
    [] x = 0 - 2 -> 1192
    [] x = 0 -> 5000
    [] x = 2 -> 8808
    [] x = 10 -> 10000

\* -1 * torch.log(p) for the probabilities that occur (p >= epsilon).
NegLog(p) ==
  CASE p = 1 -> 92103
    [] p = 1192 -> 21270
    [] p = 5000 -> 6931
    [] p = 8808 -> 1269
    [] p = 10000 -> 0

\* log(1 + exp(-|x|)), the stable tail of binary_cross_entropy_with_logits.
Log1pExpNegAbs(x) ==
  CASE x = 0 - 10 -> 0
    [] x = 0 - 2 -> 1269
    [] x = 0 -> 6931
    [] x = 2 -> 1269
    [] x = 10 -> 0

\* torch.nn.functional.binary_cross_entropy_with_logits on one sample:
\* weight * (max(x, 0) - x * y + log(1 + exp(-|x|))), y the 0/1 target,
\* weight in units of 1e-4.
BceWithLogits(x, y, weight) ==
  FMul(weight, (Max(x, 0) - x * y) * 10000 + Log1pExpNegAbs(x))

\* torch.log of a small non-negative integer (log(0) is -inf: see
\* WeightFormula).
Ln(k) ==
  CASE k = 1 -> 0
    [] k = 2 -> 6931
    [] k = 3 -> 10986
    [] k = 4 -> 13863
    [] k = 5 -> 16094
    [] k = 6 -> 17918
    [] k = 7 -> 19459
    [] k = 8 -> 20794

RECURSIVE SumSeq(_)
\* torch.sum of a flat list of values (0 for the empty list).
SumSeq(s) == IF s = <<>> THEN 0 ELSE FAdd(Head(s), SumSeq(Tail(s)))

(***************************************************************************)
(* Tensors.                                                                *)
(***************************************************************************)

RECURSIVE Prod(_)
Prod(shape) == IF shape = <<>> THEN 1 ELSE Head(shape) * Prod(Tail(shape))

\* The index tuple at row-major position k (0-based) of a tensor of the shape.
Unflat(shape, k) ==
  [i \in 1..Len(shape) |->
     (k \div Prod(SubSeq(shape, i + 1, Len(shape)))) % shape[i]]

\* All index tuples of a shape, in row-major order.
AllIdx(shape) == [k \in 1..Prod(shape) |-> Unflat(shape, k - 1)]

\* The set of index tuples of a shape (of at most four dimensions).
IdxSet(shape) ==
  LET D(i) == 0..(shape[i] - 1)
  IN CASE Len(shape) = 0 -> {<<>>}
       [] Len(shape) = 1 -> {<<a>> : a \in D(1)}
       [] Len(shape) = 2 -> {<<a, b>> : a \in D(1), b \in D(2)}
       [] Len(shape) = 3 -> {<<a, b, c>> : a \in D(1), b \in D(2), c \in D(3)}
       [] Len(shape) = 4 ->
            {<<a, b, c, d>> : a \in D(1), b \in D(2), c \in D(3), d \in D(4)}

\* The row-major position (0-based) of an index tuple.
Flat(shape, ix) ==
  LET RECURSIVE Go(_, _)
      Go(i, acc) == IF i > Len(shape) THEN acc
                    ELSE Go(i + 1, acc * shape[i] + ix[i])
  IN Go(1, 0)

\* A tensor of the given shape whose cell at row-major position k holds the
\* logit LogitSeq[(seed + 3k) mod 5]: the inputs of a call.
InputTensor(shape, seed) ==
  [shape |-> shape,
   data |-> [ix \in IdxSet(shape) |->
               LogitSeq[((seed + 3 * Flat(shape, ix)) % 5) + 1]]]

\* Mutant of CenterCell: the cell at spatial index (0, 0) is taken.
CenterCellCorner(t, center_px) ==
  [shape |-> <<t.shape[1], t.shape[2]>>,
   data |-> [ix \in IdxSet(<<t.shape[1], t.shape[2]>>) |->
               t.data[<<ix[1], ix[2], 0, 0>>]]]

\* t[:, :, center_px, center_px] of a 4-D tensor.
CenterCell(t, center_px) ==
  [shape |-> <<t.shape[1], t.shape[2]>>,
   data |-> [ix \in IdxSet(<<t.shape[1], t.shape[2]>>) |->
               t.data[<<ix[1], ix[2], center_px, center_px>>]]]

\* torch.Tensor.squeeze(): every dimension of size 1 is removed, wherever
\* it stands.
Squeeze(t) ==
  LET kept == SelectSeq([i \in 1..Len(t.shape) |-> i],
                        LAMBDA i : t.shape[i] # 1)
      shape2 == [j \in 1..Len(kept) |-> t.shape[kept[j]]]
      Full(ix) == [i \in 1..Len(t.shape) |->
                     IF t.shape[i] = 1 THEN 0
                     ELSE ix[CHOOSE j \in 1..Len(kept) : kept[j] = i]]
  IN [shape |-> shape2,
      data |-> [ix \in IdxSet(shape2) |-> t.data[Full(ix)]]]

\* Apply an elementwise function to a tensor.
MapTensor(F(_), t) ==
  [shape |-> t.shape, data |-> [ix \in DOMAIN t.data |-> F(t.data[ix])]]

(***************************************************************************)
(* Optional values, masks and label vectors.                               *)
(***************************************************************************)

\* Python's None and a present value.
None == <<>>

Some(v) == <<v>>

\* labels.to(torch.uint8) of a bool vector (indices 0..C-1).
ToUint8(labels) == [c \in DOMAIN labels |-> IF labels[c] THEN 1 ELSE 0]

\* Mutant of Diag: the vector broadcast along the columns (v.unsqueeze(1))
\* instead of laid on the diagonal.
DiagAsRows(v) ==
  LET n == Cardinality(DOMAIN v)
  IN [shape |-> <<n, n>>, data |-> [ix \in IdxSet(<<n, n>>) |-> v[ix[1]]]]

\* torch.diag of a vector: the square matrix with the vector on its diagonal.
Diag(v) ==
  LET n == Cardinality(DOMAIN v)
  IN [shape |-> <<n, n>>,
      data |-> [ix \in IdxSet(<<n, n>>) |->
                  IF ix[1] = ix[2] THEN v[ix[1]] ELSE 0]]

\* torch.repeat_interleave(torch.eye(C), N, dim=0): the (C*N) x C matrix
\* with a 1 at (r, c) exactly when row r lies in channel c's block.
EyeRepeat(C, N) ==
  [shape |-> <<C * N, C>>,
   data |-> [ix \in IdxSet(<<C * N, C>>) |->
               IF ix[1] \div N = ix[2] THEN 1 ELSE 0]]

\* v[:, None] * m: every row r of the matrix m scaled by v[r].
RowScale(v, m) ==
  [shape |-> m.shape,
   data |-> [ix \in DOMAIN m.data |-> v[ix[1]] * m.data[ix]]]

\* The cells a uint8 mask selects.
MaskCells(m) == {ix \in DOMAIN m.data : m.data[ix] # 0}

\* t[m] for a 2-D uint8 mask m (boolean-mask indexing): the values of t at
\* the selected cells, in row-major order, every trailing dimension of t
\* included; an IndexError when t has fewer than two dimensions or its two
\* leading dimensions are not the mask's.
MaskIndex(t, m) ==
  IF Len(t.shape) < 2 \/ t.shape[1] # m.shape[1] \/ t.shape[2] # m.shape[2]
  THEN [err |-> TRUE, vals |-> <<>>]
  ELSE LET picked == SelectSeq(AllIdx(t.shape),
                               LAMBDA ix : m.data[<<ix[1], ix[2]>>] # 0)
       IN [err |-> FALSE,
           vals |-> [k \in 1..Len(picked) |-> t.data[picked[k]]]]

\* Mutant of RepeatInterleave: the vector is tiled (v.repeat(N)): index r
\* holds v[r mod C].
RepeatTiled(v, N) ==
  [r \in 0..(Cardinality(DOMAIN v) * N - 1) |-> v[r % Cardinality(DOMAIN v)]]

\* v.repeat_interleave(N) of a vector: index r holds v[r div N].
RepeatInterleave(v, N) ==
  [r \in 0..(Cardinality(DOMAIN v) * N - 1) |-> v[r \div N]]

\* torch.arange(0, B, N), as the set of its elements.
Arange(B, N) == {r \in 0..(B - 1) : r % N = 0}

\* Mutant of AddIfNotNone: the term replaces the running total.
AddIfNotNoneOverwrites(x, y) == IF y # None THEN y[1] ELSE x

\* _add_if_not_none: x + y if y is not None else x.
AddIfNotNone(x, y) == IF y # None THEN FAdd(x, y[1]) ELSE x

\* Mutant of DetachIfNotNone: an absent term is logged as zero.
DetachOrZero(x) == IF x # None THEN Some(x[1]) ELSE Some(0)

\* _detach_if_not_none: x.detach() if x is not None else None.
DetachIfNotNone(x) == IF x # None THEN Some(x[1]) ELSE None

\* Mutant of OptionalTerm: the emptiness test is missing, so that an empty
\* selection gives the (zero) sum.
OptionalTermNeverNone(numel, loss) == Some(loss)

\* if selected.numel() == 0: term = None else: term = <the loss>.
OptionalTerm(numel, loss) == IF numel = 0 THEN None ELSE Some(loss)

\* The result of a call that raised: no total, no components.
Raised(kind) ==
  [status |-> kind, total |-> None, components |-> <<>>, locals |-> <<>>]

(***************************************************************************)
(* Batch layout decoder (both variants).                                   *)
(***************************************************************************)

\* Mutant of AssertDivisible: the assertion is stripped.
AssertDivisibleStripped(mo) == TRUE

\* assert (maximizer_outputs.shape[0] % maximizer_outputs.shape[1] == 0)
AssertDivisible(mo) == mo.shape[1] % mo.shape[2] = 0

\* Mutant of Footprint: a tensor without footprint dimensions is taken to
\* carry the 1 x 1 footprint.
FootprintOrUnit(t) ==
  IF Len(t.shape) < 4 THEN [err |-> FALSE, h |-> 1, w |-> 1]
  ELSE [err |-> FALSE, h |-> t.shape[3], w |-> t.shape[4]]

\* t.shape[2] and t.shape[3], the footprint of a tensor; reading them from a
\* tensor of fewer dimensions is an IndexError.
Footprint(t) ==
  IF Len(t.shape) < 4 THEN [err |-> TRUE, h |-> 0, w |-> 0]
  ELSE [err |-> FALSE, h |-> t.shape[3], w |-> t.shape[4]]

\* assert (maximizer_outputs.shape[2] == maximizer_outputs.shape[3])
AssertSquare(mo) == Footprint(mo).h = Footprint(mo).w

\* if t.shape[2] != 1: t = t[:, :, center_px, center_px] with
\* center_px = (t.shape[2] - 1) // 2; an IndexError when center_px is no
\* index of the last dimension.
ExtractCenter(t) ==
  LET center_px == (Footprint(t).h - 1) \div 2
  IN IF Footprint(t).h = 1 THEN [err |-> FALSE, t |-> t]
     ELSE IF center_px >= Footprint(t).w THEN [err |-> TRUE, t |-> t]
     ELSE [err |-> FALSE, t |-> CenterCell(t, center_px)]

\* The two assertions, the center-cell extraction and squeeze() of
\* forward_with_log_data: the raw decoded tensors, or the exception raised.
Decode(mo, co) ==
  IF ~AssertDivisible(mo) THEN [status |-> "AssertionError"]
  ELSE IF Footprint(mo).err THEN [status |-> "IndexError"]
  ELSE IF ~AssertSquare(mo) THEN [status |-> "AssertionError"]
  ELSE IF ExtractCenter(mo).err THEN [status |-> "IndexError"]
  ELSE IF Footprint(co).err THEN [status |-> "IndexError"]
  ELSE IF ExtractCenter(co).err THEN [status |-> "IndexError"]
  ELSE [status |-> "ok",
        mo |-> Squeeze(ExtractCenter(mo).t),
        co |-> Squeeze(ExtractCenter(co).t)]

(***************************************************************************)
(* Variant A: OHNMClassicImipLoss.forward_with_log_data.                   *)
(***************************************************************************)

\* The keys of the component mapping Variant A returns.
ClassicKeys ==
  {"loss", "outlier_correspondence_loss", "outlier_maximizer_loss",
   "inlier_maximizer_loss", "unaligned_maximizer_loss"}

\* torch.sum(-1 * torch.log(torch.max(p, epsilon))) over a list of
\* probabilities.
SumNegLogFloored(ps, eps) ==
  SumSeq([k \in 1..Len(ps) |-> NegLog(Max(ps[k], eps))])

\* expanded_inlier_labels[maximum_patch_index] = inlier_labels needs as many
\* indices in arange(0, B, N) as there are labels (else the assignment
\* raises: the shapes do not match).
CanPlaceLabels(il, B, N) ==
  Cardinality(Arange(B, N)) = Cardinality(DOMAIN il)

\* Mutant of ExpandInlier: the label is repeated over the channel's block.
ExpandInlierWholeBlock(il, B, N) ==
  [r \in 0..(Cardinality(DOMAIN il) * N - 1) |-> il[r \div N]]

\* expanded_inlier_labels: zeros of length C*N with inlier_labels written at
\* maximum_patch_index = arange(0, B, N).
ExpandInlier(il, B, N) ==
  [r \in 0..(Cardinality(DOMAIN il) * N - 1) |->
     IF r \in Arange(B, N) THEN il[r \div N] ELSE 0]

\* Mutant of ExpandOutlier: the inlier flag is taken for the whole block, so
\* that an inlier channel has no outlier patch.
ExpandOutlierSkipsInlierBlocks(has_data, expanded_inlier, N) ==
  [r \in DOMAIN expanded_inlier |->
     IF RepeatInterleave(has_data, N)[r] # 0
          /\ expanded_inlier[(r \div N) * N] = 0
     THEN 1 ELSE 0]

\* has_data.repeat_interleave(N) & logical_not(expanded_inlier_labels).
ExpandOutlier(has_data, expanded_inlier, N) ==
  [r \in DOMAIN expanded_inlier |->
     IF RepeatInterleave(has_data, N)[r] # 0 /\ expanded_inlier[r] = 0
     THEN 1 ELSE 0]

\* inlier_labels | outlier_labels on uint8 vectors.
BitOr(a, b) == [c \in DOMAIN a |-> IF a[c] # 0 \/ b[c] # 0 THEN 1 ELSE 0]

\* Mutant of UnalignedInlierIndex: only the cross cells between two inlier
\* channels.
UnalignedAmongInliers(il) ==
  LET d == Diag(il)
  IN [shape |-> d.shape,
      data |-> [ix \in DOMAIN d.data |->
                  IF ix[1] # ix[2] /\ il[ix[1]] # 0 /\ il[ix[2]] # 0
                  THEN 1 ELSE 0]]

\* Mutant of UnalignedInlierIndex: the labels are broadcast along the rows
\* (inlier_labels.unsqueeze(0)).
UnalignedBroadcastAlongRows(il) ==
  LET d == Diag(il)
  IN [shape |-> d.shape,
      data |-> [ix \in DOMAIN d.data |-> (d.data[ix] + il[ix[2]]) % 2]]

\* torch.diag(inlier_labels) ^ inlier_labels.unsqueeze(1): cell (i, j) is the
\* diagonal matrix's cell xor inlier_labels[i] (broadcast along the columns).
UnalignedInlierIndex(il) ==
  LET d == Diag(il)
  IN [shape |-> d.shape,
      data |-> [ix \in DOMAIN d.data |-> (d.data[ix] + il[ix[1]]) % 2]]

\* maximizer_outputs[maximum_patch_index]: the rows 0, N, 2N, ... of the
\* score tensor, one per channel.
MaximumPatchRows(mo, N) ==
  LET rows == Cardinality(Arange(mo.shape[1], N))
  IN [shape |-> <<rows, mo.shape[2]>>,
      data |-> [ix \in IdxSet(<<rows, mo.shape[2]>>) |->
                  mo.data[<<ix[1] * N, ix[2]>>]]]

\* Mutant of OutlierMaximizerLoss: every channel's sum is divided by the
\* number of selected cells of the whole batch.
OutlierMaximizerLossBatchMean(mo, mask, eps) ==
  LET C == mo.shape[2]
      B == mo.shape[1]
      colsum(c) ==
        SumSeq([k \in 1..B |->
                  NegLog(Max(10000 - mo.data[<<k - 1, c>>], eps))
                    * mask.data[<<k - 1, c>>]])
  IN SumSeq([k \in 1..C |->
               colsum(k - 1) \div Max(Cardinality(MaskCells(mask)), 1)])

\* The maxima-outlier term: per channel, the summed -log(max(1 - p, eps))
\* over the channel's selected cells divided by their number clamped to at
\* least 1, summed over the channels.
OutlierMaximizerLoss(mo, mask, eps) ==
  LET C == mo.shape[2]
      B == mo.shape[1]
      count(c) == Cardinality({r \in 0..(B - 1) : mask.data[<<r, c>>] # 0})
      colsum(c) ==
        SumSeq([k \in 1..B |->
                  NegLog(Max(10000 - mo.data[<<k - 1, c>>], eps))
                    * mask.data[<<k - 1, c>>]])
  IN SumSeq([k \in 1..C |-> colsum(k - 1) \div Max(count(k - 1), 1)])

\* OHNMClassicImipLoss.forward_with_log_data: the returned total and
\* component mapping (with the selections it computed on the way), or the
\* exception raised.
ForwardClassic(mo_in, co_in, inlier_in, outlier_in, eps) ==
  LET dec == Decode(mo_in, co_in)
  IN IF dec.status # "ok" THEN Raised(dec.status)
     ELSE
     LET mo == MapTensor(Sigmoid, dec.mo)
         co == MapTensor(Sigmoid, dec.co)
         il == ToUint8(inlier_in)
         ol == ToUint8(outlier_in)
         corr_outlier_index_2d == Diag(ol)
         aligned_outlier_corr_outputs == MaskIndex(co, corr_outlier_index_2d)
     IN IF aligned_outlier_corr_outputs.err \/ Len(mo.shape) < 2
        THEN Raised("IndexError")
        ELSE IF ~CanPlaceLabels(il, mo.shape[1], mo.shape[1] \div mo.shape[2])
        THEN Raised("RuntimeError")
        ELSE
        LET outlier_correspondence_loss ==
              OptionalTerm(Len(aligned_outlier_corr_outputs.vals),
                SumNegLogFloored(aligned_outlier_corr_outputs.vals, eps))
            N == mo.shape[1] \div mo.shape[2]
            expanded_inlier_labels == ExpandInlier(il, mo.shape[1], N)
            has_data_labels == BitOr(il, ol)
            expanded_outlier_labels ==
              ExpandOutlier(has_data_labels, expanded_inlier_labels, N)
            maxima_inlier_index_2d ==
              RowScale(expanded_inlier_labels, EyeRepeat(mo.shape[2], N))
            maxima_outlier_index_2d ==
              RowScale(expanded_outlier_labels, EyeRepeat(mo.shape[2], N))
            outlier_maximizer_loss ==
              OptionalTerm(Cardinality(MaskCells(maxima_outlier_index_2d)),
                OutlierMaximizerLoss(mo, maxima_outlier_index_2d, eps))
            aligned_inlier_maximizer_scores ==
              MaskIndex(mo, maxima_inlier_index_2d)
            inlier_loss ==
              OptionalTerm(Len(aligned_inlier_maximizer_scores.vals),
                SumNegLogFloored(aligned_inlier_maximizer_scores.vals, eps))
            unaligned_inlier_index == UnalignedInlierIndex(il)
            unaligned_inlier_maximizer_scores ==
              MaskIndex(MaximumPatchRows(mo, N), unaligned_inlier_index)
            unaligned_maximizer_loss ==
              IF Len(unaligned_inlier_maximizer_scores.vals) = 0 THEN Some(0)
              ELSE Some(SumSeq(unaligned_inlier_maximizer_scores.vals))
            total_loss ==
              AddIfNotNone(
                AddIfNotNone(
                  AddIfNotNone(
                    AddIfNotNone(0, outlier_correspondence_loss),
                    outlier_maximizer_loss),
                  inlier_loss),
                unaligned_maximizer_loss)
        IN [status |-> "ok",
            total |-> Some(total_loss),
            components |->
              [k \in ClassicKeys |->
                 CASE k = "loss" -> Some(total_loss)
                   [] k = "outlier_correspondence_loss" ->
                        DetachIfNotNone(outlier_correspondence_loss)
                   [] k = "outlier_maximizer_loss" ->
                        DetachIfNotNone(outlier_maximizer_loss)
                   [] k = "inlier_maximizer_loss" ->
                        DetachIfNotNone(inlier_loss)
                   [] k = "unaligned_maximizer_loss" ->
                        DetachIfNotNone(unaligned_maximizer_loss)],
            locals |->
              [num_patches_per_channel |-> N,
               corr_outlier_cells |-> MaskCells(corr_outlier_index_2d),
               expanded_inlier_labels |-> expanded_inlier_labels,
               expanded_outlier_labels |-> expanded_outlier_labels,
               maxima_inlier_cells |-> MaskCells(maxima_inlier_index_2d),
               maxima_outlier_cells |-> MaskCells(maxima_outlier_index_2d),
               unaligned_cells |-> MaskCells(unaligned_inlier_index)]]

(***************************************************************************)
(* Variant B: OHNMBCELoss.                                                 *)
(***************************************************************************)

\* The keys of the component mapping Variant B returns.
BCEKeys ==
  {"loss", "bce_maximizer_loss", "outlier_correspondence_loss",
   "unaligned_maximizer_loss"}

RECURSIVE Str(_)
\* Python's str() of a non-negative integer: its decimal digits.
Str(n) ==
  LET digit == <<"0", "1", "2", "3", "4", "5", "6", "7", "8", "9">>
  IN IF n < 10 THEN digit[n + 1] ELSE Str(n \div 10) \o digit[(n % 10) + 1]

\* Mutant of WeightFormula: the closed form without its last summand.
WeightFormulaWithoutOne(k) ==
  IF k = 1 THEN NaN
  ELSE k * Ln(k - 1) - (Ln(k - 1) - Ln(k)) - k * Ln(k)

\* The closed form k * log(k - 1) - log((k - 1) / k) - k * log(k) + 1.
\* At k = 1 it is -inf + inf, not a number.
WeightFormula(k) ==
  IF k = 1 THEN NaN
  ELSE k * Ln(k - 1) - (Ln(k - 1) - Ln(k)) - k * Ln(k) + 10000

\* Mutant of InitWeights: the cache starts empty, without the seed entry.
InitWeightsUnseeded == [key \in {} |-> 10000]

\* The weight cache as __init__ leaves it: {str(1): 1.0}.
InitWeights == [key \in {Str(1)} |-> 10000]

\* Mutant of GetBceMaximaOutlierWeight: a miss also stores the weight of the
\* next N.
GetWeightPrefetchesNext(cache, num_patches_per_channel) ==
  LET nppc_str == Str(num_patches_per_channel)
      cache2 == IF nppc_str \notin DOMAIN cache
                THEN cache
                       @@ (nppc_str :> WeightFormula(num_patches_per_channel))
                       @@ (Str(num_patches_per_channel + 1) :>
                             WeightFormula(num_patches_per_channel + 1))
                ELSE cache
  IN [cache |-> cache2, weight |-> cache2[nppc_str]]

\* Mutant of GetBceMaximaOutlierWeight: a miss starts the cache over, with
\* the new entry alone.
GetWeightEvictsOthers(cache, num_patches_per_channel) ==
  LET nppc_str == Str(num_patches_per_channel)
      cache2 == IF nppc_str \notin DOMAIN cache
                THEN (nppc_str :> WeightFormula(num_patches_per_channel))
                ELSE cache
  IN [cache |-> cache2, weight |-> cache2[nppc_str]]

\* Mutant of GetBceMaximaOutlierWeight: on a miss the closed form is stored
\* but the seed entry is returned.
GetWeightMissReturnsSeed(cache, num_patches_per_channel) ==
  LET nppc_str == Str(num_patches_per_channel)
  IN IF nppc_str \notin DOMAIN cache
     THEN [cache |-> cache @@ (nppc_str :> WeightFormula(num_patches_per_channel)),
           weight |-> cache[Str(1)]]
     ELSE [cache |-> cache, weight |-> cache[nppc_str]]

\* _get_bce_maxima_outlier_weight: the cache after the call and the weight
\* returned.
GetBceMaximaOutlierWeight(cache, num_patches_per_channel) ==
  LET nppc_str == Str(num_patches_per_channel)
      cache2 == IF nppc_str \notin DOMAIN cache
                THEN cache @@ (nppc_str :> WeightFormula(num_patches_per_channel))
                ELSE cache
  IN [cache |-> cache2, weight |-> cache2[nppc_str]]

\* if nppc_str not in self._bce_maxima_outlier_weights: the membership test,
\* one dictionary operation.
CacheMiss(cache, num_patches_per_channel) ==
  Str(num_patches_per_channel) \notin DOMAIN cache

\* self._bce_maxima_outlier_weights[nppc_str] = value: the dictionary store.
\* It adds the key, or overwrites the entry the key already has.
CacheStore(cache, num_patches_per_channel, value) ==
  [key \in DOMAIN cache \cup {Str(num_patches_per_channel)} |->
     IF key = Str(num_patches_per_channel) THEN value ELSE cache[key]]

\* Mutant of CachedWeight: the seed entry is read, whatever the key.
CachedWeightOfSeed(cache, num_patches_per_channel) == cache[Str(1)]

\* return self._bce_maxima_outlier_weights[nppc_str]: the dictionary read.
CachedWeight(cache, num_patches_per_channel) ==
  cache[Str(num_patches_per_channel)]

\* torch.repeat_interleave(m, N, dim=0) of a matrix: row r holds row r div N
\* of m.
RepeatRows(m, N) ==
  [shape |-> <<m.shape[1] * N, m.shape[2]>>,
   data |-> [ix \in IdxSet(<<m.shape[1] * N, m.shape[2]>>) |->
               m.data[<<ix[1] \div N, ix[2]>>]]]

\* Mutant of MaskVector: the selected entries come out in descending order
\* of their index.
MaskVectorDescending(v, mask) ==
  LET rows == SelectSeq([k \in 1..Cardinality(DOMAIN v) |-> k - 1],
                        LAMBDA r : mask[r] # 0)
  IN [k \in 1..Len(rows) |-> v[rows[Len(rows) + 1 - k]]]

\* v[mask] for two vectors of one length: the entries of v where mask is
\* set, in order.
MaskVector(v, mask) ==
  LET rows == SelectSeq([k \in 1..Cardinality(DOMAIN v) |-> k - 1],
                        LAMBDA r : mask[r] # 0)
  IN [k \in 1..Len(rows) |-> v[rows[k]]]

\* binary_cross_entropy_with_logits(xs, ys, ws, reduction="sum").
BceSum(xs, ys, ws) ==
  SumSeq([k \in 1..Len(xs) |-> BceWithLogits(xs[k], ys[k], ws[k])])

\* OHNMBCELoss.forward_with_log_data: [ret, cache], the result (as for
\* Variant A) and the weight cache the call leaves.
ForwardBCE(cache, mo_in, co_in, inlier_in, outlier_in) ==
  LET dec == Decode(mo_in, co_in)
  IN IF dec.status # "ok" THEN [ret |-> Raised(dec.status), cache |-> cache]
     ELSE
     LET mo == dec.mo
         co == dec.co
         il == ToUint8(inlier_in)
         ol == ToUint8(outlier_in)
         corr_outlier_index_2d == Diag(ol)
         aligned_outlier_corr_outputs == MaskIndex(co, corr_outlier_index_2d)
     IN IF aligned_outlier_corr_outputs.err \/ Len(mo.shape) < 2
        THEN [ret |-> Raised("IndexError"), cache |-> cache]
        ELSE IF ~CanPlaceLabels(il, mo.shape[1], mo.shape[1] \div mo.shape[2])
        THEN [ret |-> Raised("RuntimeError"), cache |-> cache]
        ELSE
        LET xs == aligned_outlier_corr_outputs.vals
            aligned_corr_losses ==
              OptionalTerm(Len(xs),
                BceSum(xs, [k \in 1..Len(xs) |-> 1],
                       [k \in 1..Len(xs) |-> 10000]))
            N == mo.shape[1] \div mo.shape[2]
            expanded_inlier_labels == ExpandInlier(il, mo.shape[1], N)
            has_data_labels == BitOr(il, ol)
            expanded_has_data_labels == RepeatInterleave(has_data_labels, N)
            maxima_bce_labels ==
              MaskVector(expanded_inlier_labels, expanded_has_data_labels)
            lookup == GetBceMaximaOutlierWeight(cache, N)
            maxima_weights ==
              [k \in 1..Len(maxima_bce_labels) |->
                 IF maxima_bce_labels[k] = 0 THEN lookup.weight ELSE 10000]
            maxima_has_data_index_2d ==
              RepeatRows(RowScale(has_data_labels, EyeRepeat(mo.shape[2], 1)), N)
            maxima_scores == MaskIndex(mo, maxima_has_data_index_2d)
            maxima_losses ==
              OptionalTerm(Len(maxima_bce_labels),
                BceSum(maxima_scores.vals, maxima_bce_labels, maxima_weights))
            unaligned_inlier_index == UnalignedInlierIndex(il)
            unaligned_inlier_outputs ==
              MaskIndex(MaximumPatchRows(mo, N), unaligned_inlier_index)
            ys == unaligned_inlier_outputs.vals
            unaligned_maxima_losses ==
              OptionalTerm(Len(ys),
                BceSum(ys, [k \in 1..Len(ys) |-> 0],
                       [k \in 1..Len(ys) |-> 10000]))
            total_loss ==
              AddIfNotNone(
                AddIfNotNone(AddIfNotNone(0, maxima_losses), aligned_corr_losses),
                unaligned_maxima_losses)
        IN [cache |-> IF Len(maxima_bce_labels) = 0 THEN cache ELSE lookup.cache,
            ret |->
              [status |-> "ok",
               total |-> Some(total_loss),
               components |->
                 [k \in BCEKeys |->
                    CASE k = "loss" -> Some(total_loss)
                      [] k = "bce_maximizer_loss" ->
                           DetachIfNotNone(maxima_losses)
                      [] k = "outlier_correspondence_loss" ->
                           DetachIfNotNone(aligned_corr_losses)
                      [] k = "unaligned_maximizer_loss" ->
                           DetachIfNotNone(unaligned_maxima_losses)],
               locals |->
                 [num_patches_per_channel |-> N,
                  corr_outlier_cells |-> MaskCells(corr_outlier_index_2d),
                  expanded_inlier_labels |-> expanded_inlier_labels,
                  expanded_has_data_labels |-> expanded_has_data_labels,
                  maxima_has_data_cells |-> MaskCells(maxima_has_data_index_2d),
                  maxima_bce_labels |-> maxima_bce_labels,
                  maxima_weights |->
                    IF Len(maxima_bce_labels) = 0 THEN <<>> ELSE maxima_weights,
                  unaligned_cells |-> MaskCells(unaligned_inlier_index)]]]

(***************************************************************************)
(* The state machine: one loss instance of each variant, called by the     *)
(* training loop one step at a time.                                        *)
(***************************************************************************)

\* The footprints (H, W) a 4-D input tensor carries in the model; the empty
\* footprint <<>> is a plain 2-D tensor.
Footprints == {<<1, 1>>, <<2, 2>>, <<3, 3>>, <<1, 2>>, <<3, 1>>}

\* The layouts <<score footprint, correspondence footprint, extra rows>> of a
\* call.  At most one of the two tensors departs from the 1 x 1 footprint,
\* or both are 2-D, or both carry the 3 x 3 footprint; the score tensor has
\* C * N + extra rows, and some layouts come with one extra row, so that C
\* does not divide the number of rows.
Layouts ==
  {<<f, <<1, 1>>, 0>> : f \in Footprints \cup {<<>>}}
    \cup {<<<<1, 1>>, f, 0>> : f \in Footprints \cup {<<>>}}
    \cup {<<<<>>, <<>>, 0>>, <<<<3, 3>>, <<3, 3>>, 0>>}
    \cup {<<f, <<1, 1>>, 1>> : f \in {<<>>, <<1, 1>>, <<1, 2>>, <<3, 3>>}}

\* The seeds of the input tensors' values.
Seeds == {0, 1}

\* The label vectors of C channels.
Labels(C) == [0..(C - 1) -> BOOLEAN]

\* The pairs <<inlier_labels, outlier_labels>> of a call: a channel is inlier,
\* outlier or neither; channel 0 may also be (wrongly) labelled both.
LabelPairs(C) ==
  {io \in Labels(C) \X Labels(C) :
     \A c \in 1..(C - 1) : ~(io[1][c] /\ io[2][c])}

\* The arguments of a call: the score tensor of shape (rows, C) + footprint,
\* the correspondence tensor of shape (C, C) + footprint, and the labels.
Args(variant, C, rows, layout, seed, inlier, outlier) ==
  [variant |-> variant,
   maximizer_outputs |-> InputTensor(<<rows, C>> \o layout[1], seed),
   correspondence_outputs |-> InputTensor(<<C, C>> \o layout[2], seed + 1),
   inlier_labels |-> inlier,
   outlier_labels |-> outlier]

\* No call in progress: no arguments, no result.
NoCall == <<>>

\* The threads that share the Variant B instance.
Threads == 1..MaxThreads

\* A thread outside _get_bce_maxima_outlier_weight that has not called it
\* yet: no argument, no computed weight, no returned weight.
IdleThread ==
  [pc |-> "idle", num_patches_per_channel |-> 0, k |-> None, result |-> None]

Init ==
  /\ pc = "idle"
  /\ weights = InitWeights
  /\ classic_epsilon = Epsilon
  /\ bce_epsilon = Epsilon
  /\ args = NoCall
  /\ ret = NoCall
  /\ threads = [t \in Threads |-> IdleThread]

\* The training loop calls the Variant A instance; the call runs to its
\* return or to the exception it raises.
CallClassic ==
  /\ pc = "idle"
  /\ \E C \in 1..MaxC, N \in 1..MaxN, layout \in Layouts, seed \in Seeds :
       \E io \in LabelPairs(C) :
         /\ args' = Args("A", C, C * N + layout[3], layout, seed, io[1], io[2])
         /\ ret' = ForwardClassic(args'.maximizer_outputs,
                                  args'.correspondence_outputs,
                                  io[1], io[2], classic_epsilon)
  /\ pc' = "done"
  /\ UNCHANGED <<weights, classic_epsilon, bce_epsilon, threads>>

\* The training loop calls the Variant B instance.
CallBCE ==
  /\ pc = "idle"
  /\ \E C \in 1..MaxC, N \in 1..MaxN, layout \in Layouts, seed \in Seeds :
       \E io \in LabelPairs(C) :
         /\ args' = Args("B", C, C * N + layout[3], layout, seed, io[1], io[2])
         /\ LET out == ForwardBCE(weights, args'.maximizer_outputs,
                                  args'.correspondence_outputs, io[1], io[2])
            IN /\ ret' = out.ret
               /\ weights' = out.cache
  /\ pc' = "done"
  /\ UNCHANGED <<classic_epsilon, bce_epsilon, threads>>

\* The caller takes the result (or the exception); the call's tensors are
\* dropped.
Return ==
  /\ pc = "done"
  /\ pc' = "idle"
  /\ args' = NoCall
  /\ ret' = NoCall
  /\ UNCHANGED <<weights, classic_epsilon, bce_epsilon, threads>>

Next == CallClassic \/ CallBCE \/ Return

Spec == Init /\ [][Next]_vars

TypeOK ==
  /\ pc \in {"idle", "done"}
  /\ classic_epsilon = Epsilon
  /\ bce_epsilon = Epsilon
  /\ DOMAIN weights \subseteq {Str(n) : n \in 1..(MaxN + 1)}
  /\ pc = "done" => ret.status \in {"ok", "AssertionError", "IndexError"}
  /\ pc = "idle" => args = NoCall /\ ret = NoCall
  /\ threads = [t \in Threads |-> IdleThread]

(***************************************************************************)
(* One Variant B instance shared by concurrent callers.  Only              *)
(* _get_bce_maxima_outlier_weight touches shared state (the weight cache); *)
(* every thread runs it statement by statement, and the interpreter may    *)
(* switch threads between the membership test, the evaluation of the       *)
(* closed form, the dictionary store and the final dictionary read.  The   *)
(* method takes no lock.                                                   *)
(***************************************************************************)

\* The sequential state, which the concurrent lookups leave alone.
sequential_vars == <<pc, classic_epsilon, bce_epsilon, args, ret>>

\* A thread calls _get_bce_maxima_outlier_weight(num_patches_per_channel):
\* nppc_str = str(num_patches_per_channel).
LookupCall(t) ==
  /\ threads[t].pc = "idle"
  /\ \E n \in 1..MaxN :
       threads' = [threads EXCEPT ![t] =
                     [pc |-> "test", num_patches_per_channel |-> n,
                      k |-> None, result |-> None]]
  /\ UNCHANGED <<weights, sequential_vars>>

\* if nppc_str not in self._bce_maxima_outlier_weights: on a miss the thread
\* enters the branch, on a hit it goes to the return statement.
LookupTest(t) ==
  /\ threads[t].pc = "test"
  /\ threads' = [threads EXCEPT ![t].pc =
                   IF CacheMiss(weights, threads[t].num_patches_per_channel)
                   THEN "compute" ELSE "return"]
  /\ UNCHANGED <<weights, sequential_vars>>

\* The right-hand side of the assignment: the closed form is evaluated at
\* k = num_patches_per_channel (device and dtype read from the seed entry).
LookupCompute(t) ==
  /\ threads[t].pc = "compute"
  /\ threads' = [threads EXCEPT
                   ![t].pc = "insert",
                   ![t].k = Some(WeightFormula(threads[t].num_patches_per_channel))]
  /\ UNCHANGED <<weights, sequential_vars>>

\* The assignment stores the value under nppc_str.
LookupInsert(t) ==
  /\ threads[t].pc = "insert"
  /\ weights' = CacheStore(weights, threads[t].num_patches_per_channel,
                           threads[t].k[1])
  /\ threads' = [threads EXCEPT ![t].pc = "return"]
  /\ UNCHANGED sequential_vars

\* return self._bce_maxima_outlier_weights[nppc_str]; the thread keeps the
\* weight it got until its next call.
LookupReturn(t) ==
  /\ threads[t].pc = "return"
  /\ threads' = [threads EXCEPT
                   ![t].pc = "idle",
                   ![t].result =
                     Some(CachedWeight(weights,
                                       threads[t].num_patches_per_channel))]
  /\ UNCHANGED <<weights, sequential_vars>>

NextConcurrent ==
  \E t \in Threads :
    \/ LookupCall(t)
    \/ LookupTest(t)
    \/ LookupCompute(t)
    \/ LookupInsert(t)
    \/ LookupReturn(t)

SpecConcurrent == Init /\ [][NextConcurrent]_vars

TypeOKConcurrent ==
  /\ pc = "idle"
  /\ DOMAIN weights \subseteq {Str(n) : n \in 1..MaxN}
  /\ \A t \in Threads :
       /\ threads[t].pc \in {"idle", "test", "compute", "insert", "return"}
       /\ threads[t].num_patches_per_channel \in 0..MaxN
       /\ threads[t].pc # "idle" => threads[t].num_patches_per_channel >= 1

(***************************************************************************)
(* Properties.                                                             *)
(***************************************************************************)

\* A call has returned a (total_loss, components) pair.
Returned == pc = "done" /\ ret.status = "ok"

\* The channels C, the rows B and the patches per channel of the call.
NumChannels == args.maximizer_outputs.shape[2]

NumRows == args.maximizer_outputs.shape[1]

NumPatches == NumRows \div NumChannels

Channels == 0..(NumChannels - 1)

InlierChannels == {c \in Channels : args.inlier_labels[c]}

OutlierChannels == {c \in Channels : args.outlier_labels[c]}

RECURSIVE SumOfPresent(_, _)
\* The sum of the present components among the keys.
SumOfPresent(comps, keys) ==
  IF keys = {} THEN 0
  ELSE LET k == CHOOSE x \in keys : TRUE
       IN (IF comps[k] = None THEN 0 ELSE comps[k][1])
            + SumOfPresent(comps, keys \ {k})

\* C1: every call that returns yields the key set of its variant, whatever
\* the inputs: five keys in Variant A, four in Variant B; every component is
\* None or one value, and a term whose selection is empty keeps its key and
\* maps to None, not to zero.
C1_FixedComponentKeys ==
  Returned =>
    /\ args.variant = "A" =>
         /\ DOMAIN ret.components =
              {"loss", "outlier_correspondence_loss", "outlier_maximizer_loss",
               "inlier_maximizer_loss", "unaligned_maximizer_loss"}
         /\ ret.locals.maxima_outlier_cells = {} =>
              ret.components["outlier_maximizer_loss"] = None
         /\ ret.locals.maxima_inlier_cells = {} =>
              ret.components["inlier_maximizer_loss"] = None
    /\ args.variant = "B" =>
         /\ DOMAIN ret.components =
              {"loss", "outlier_correspondence_loss", "bce_maximizer_loss",
               "unaligned_maximizer_loss"}
         /\ ret.locals.maxima_has_data_cells = {} =>
              ret.components["bce_maximizer_loss"] = None
         /\ ret.locals.unaligned_cells = {} =>
              ret.components["unaligned_maximizer_loss"] = None
    /\ ret.locals.corr_outlier_cells = {} =>
         ret.components["outlier_correspondence_loss"] = None
    /\ \A k \in DOMAIN ret.components :
         ret.components[k] = None \/ Len(ret.components[k]) = 1

\* Witness of C1: a Variant B call returned with every term absent, all
\* three keys kept and mapped to None.
C1_Witness ==
  /\ Returned
  /\ args.variant = "B"
  /\ ret.components["bce_maximizer_loss"] = None
  /\ ret.components["outlier_correspondence_loss"] = None
  /\ ret.components["unaligned_maximizer_loss"] = None

\* C2: the returned total_loss and the "loss" component are one value, the
\* sum of the other components that are present; with every term absent
\* the total is zero.
C2_TotalIsSumOfPresentTerms ==
  Returned =>
    LET terms == DOMAIN ret.components \ {"loss"}
    IN /\ ret.total # None
       /\ ret.components["loss"] = ret.total
       /\ ret.total[1] = SumOfPresent(ret.components, terms)
       /\ (\A k \in terms : ret.components[k] = None) => ret.total[1] = 0

\* Witness of C2: a call returned with at least three present, non-zero
\* terms.
C2_Witness ==
  /\ Returned
  /\ Cardinality({k \in DOMAIN ret.components \ {"loss"} :
                    ret.components[k] # None /\ ret.components[k] # Some(0)}) >= 3

\* C3: of a returned call, each optional term is None exactly when its
\* selection is empty: outlier_correspondence_loss iff no channel is outlier;
\* Variant A's inlier_maximizer_loss / outlier_maximizer_loss iff the
\* maxima-inlier / maxima-outlier selection is empty; Variant B's
\* bce_maximizer_loss iff no channel has data, its unaligned_maximizer_loss
\* iff the unaligned-maxima selection is empty.
C3_AbsentIffSelectionEmpty ==
  Returned =>
    /\ ret.components["outlier_correspondence_loss"] = None
         <=> OutlierChannels = {}
    /\ args.variant = "A" =>
         /\ ret.components["inlier_maximizer_loss"] = None
              <=> ret.locals.maxima_inlier_cells = {}
         /\ ret.components["outlier_maximizer_loss"] = None
              <=> ret.locals.maxima_outlier_cells = {}
    /\ args.variant = "B" =>
         /\ ret.components["bce_maximizer_loss"] = None
              <=> InlierChannels \cup OutlierChannels = {}
         /\ ret.components["unaligned_maximizer_loss"] = None
              <=> ret.locals.unaligned_cells = {}

\* Witness of C3: a Variant A call returned with an empty maxima-inlier
\* selection and a non-empty maxima-outlier selection.
C3_Witness ==
  /\ Returned
  /\ args.variant = "A"
  /\ ret.locals.maxima_inlier_cells = {}
  /\ ret.locals.maxima_outlier_cells # {}
  /\ ret.components["inlier_maximizer_loss"] = None
  /\ ret.components["outlier_maximizer_loss"] # None

RECURSIVE SumFn(_)
\* The sum of the values of a function of finite domain.
SumFn(f) ==
  IF DOMAIN f = {} THEN 0
  ELSE LET x == CHOOSE y \in DOMAIN f : TRUE
       IN f[x] + SumFn([y \in DOMAIN f \ {x} |-> f[y]])

\* The sum of F over a finite set.
SumSet(S, F(_)) == SumFn([x \in S |-> F(x)])

\* Both input tensors carry the 1 x 1 footprint.
UnitFootprints ==
  /\ args.maximizer_outputs.shape = <<NumRows, NumChannels, 1, 1>>
  /\ args.correspondence_outputs.shape = <<NumChannels, NumChannels, 1, 1>>

\* The probability of score cell (r, c) and of correspondence cell (r, c),
\* under 1 x 1 footprints.
ScoreProb(cell) ==
  Sigmoid(args.maximizer_outputs.data[<<cell[1], cell[2], 0, 0>>])

CorrProb(cell) ==
  Sigmoid(args.correspondence_outputs.data[<<cell[1], cell[2], 0, 0>>])

NegLogFloored(p) == NegLog(IF p >= Epsilon THEN p ELSE Epsilon)

\* C4 as claimed: with outlier_labels all-false, Variant A's
\* outlier_correspondence_loss and outlier_maximizer_loss are both None and
\* the total is the sum of the inlier and unaligned terms.
C4_Original ==
  (Returned /\ args.variant = "A" /\ OutlierChannels = {}) =>
    /\ ret.components["outlier_correspondence_loss"] = None
    /\ ret.components["outlier_maximizer_loss"] = None
    /\ ret.total[1] =
         SumOfPresent(ret.components,
                      {"inlier_maximizer_loss", "unaligned_maximizer_loss"})

\* C4 amended: with outlier_labels all-false, a returned Variant A call has
\* no outlier_correspondence_loss; its maxima-outlier selection is the N - 1
\* non-maximum patches of every inlier channel, so outlier_maximizer_loss is
\* None exactly when N = 1 or no channel is inlier; the total is the sum of
\* the outlier-maximizer, inlier and unaligned terms that are present.
C4_OutlierTermsWithoutOutlierLabels ==
  (Returned /\ args.variant = "A" /\ OutlierChannels = {}) =>
    /\ ret.components["outlier_correspondence_loss"] = None
    /\ ret.locals.maxima_outlier_cells =
         {<<c * NumPatches + j, c>> :
            c \in InlierChannels, j \in 1..(NumPatches - 1)}
    /\ ret.components["outlier_maximizer_loss"] = None
         <=> (NumPatches = 1 \/ InlierChannels = {})
    /\ ret.total[1] =
         SumOfPresent(ret.components,
                      {"outlier_maximizer_loss", "inlier_maximizer_loss",
                       "unaligned_maximizer_loss"})

\* Witness of C4: C = 2, N = 2, every channel inlier, none outlier; the call
\* returned with outlier_maximizer_loss present.
C4_Witness ==
  /\ Returned
  /\ args.variant = "A"
  /\ NumChannels = 2
  /\ NumRows = 4
  /\ InlierChannels = {0, 1}
  /\ OutlierChannels = {}
  /\ ret.components["outlier_maximizer_loss"] # None
  /\ ret.locals.maxima_outlier_cells = {<<1, 0>>, <<3, 1>>}

\* The call's tensors satisfy the shape contract: 4-D, square footprints,
\* C divides B.
ValidBatch ==
  /\ Len(args.maximizer_outputs.shape) = 4
  /\ Len(args.correspondence_outputs.shape) = 4
  /\ args.maximizer_outputs.shape[3] = args.maximizer_outputs.shape[4]
  /\ args.correspondence_outputs.shape[3] = args.correspondence_outputs.shape[4]
  /\ NumRows % NumChannels = 0

\* C5 as claimed: with inlier_labels all-false a call on a valid batch never
\* raises; Variant A returns inlier_maximizer_loss None and a zero
\* unaligned_maximizer_loss, Variant B returns unaligned_maximizer_loss None
\* and only 0 targets in its maxima term; and Variant A's
\* unaligned_maximizer_loss is never None.
C5_NoInlierNeverRaises ==
  /\ (pc = "done" /\ ValidBatch /\ InlierChannels = {}) =>
       /\ ret.status = "ok"
       /\ args.variant = "A" =>
            /\ ret.components["inlier_maximizer_loss"] = None
            /\ ret.components["unaligned_maximizer_loss"] = Some(0)
       /\ args.variant = "B" =>
            /\ ret.components["unaligned_maximizer_loss"] = None
            /\ \A k \in DOMAIN ret.locals.maxima_bce_labels :
                 ret.locals.maxima_bce_labels[k] = 0
  /\ (Returned /\ args.variant = "A") =>
       ret.components["unaligned_maximizer_loss"] # None

\* The scenario of C6: Variant A, C = 2, N = 1, no channel inlier, both
\* outlier.
C6_Scenario ==
  /\ Returned
  /\ args.variant = "A"
  /\ NumChannels = 2
  /\ NumRows = 2
  /\ InlierChannels = {}
  /\ OutlierChannels = {0, 1}

\* C6 as claimed: the correspondence term is taken over the diagonal cells
\* (0,0) and (1,1), and the three maxima terms are all None.
C6_Original ==
  C6_Scenario =>
    /\ ret.locals.corr_outlier_cells = {<<0, 0>>, <<1, 1>>}
    /\ ret.components["outlier_maximizer_loss"] = None
    /\ ret.components["inlier_maximizer_loss"] = None
    /\ ret.components["unaligned_maximizer_loss"] = None

\* C6 amended: the correspondence term is taken over the diagonal cells
\* (0,0) and (1,1); of the maxima terms only inlier_maximizer_loss is None:
\* outlier_maximizer_loss is present, taken over the score cells (0,0) and
\* (1,1), and unaligned_maximizer_loss is present with the value zero.
C6_OnlyInlierTermAbsent ==
  C6_Scenario =>
    /\ ret.locals.corr_outlier_cells = {<<0, 0>>, <<1, 1>>}
    /\ ret.components["outlier_correspondence_loss"] # None
    /\ UnitFootprints =>
         ret.components["outlier_correspondence_loss"] =
           Some(SumSet({<<0, 0>>, <<1, 1>>},
                       LAMBDA cell : NegLogFloored(CorrProb(cell))))
    /\ ret.locals.maxima_inlier_cells = {}
    /\ ret.components["inlier_maximizer_loss"] = None
    /\ ret.locals.maxima_outlier_cells = {<<0, 0>>, <<1, 1>>}
    /\ ret.components["outlier_maximizer_loss"] # None
    /\ ret.locals.unaligned_cells = {}
    /\ ret.components["unaligned_maximizer_loss"] = Some(0)

\* Witness of C6: the scenario, with 1 x 1 footprints.
C6_Witness == C6_Scenario /\ UnitFootprints

\* The scenario of C7: Variant A, C = 3, N = 1, channels 0 and 2 inlier.
C7_Scenario ==
  /\ Returned
  /\ args.variant = "A"
  /\ NumChannels = 3
  /\ NumRows = 3
  /\ InlierChannels = {0, 2}

\* C7 as claimed: the unaligned-maxima selection is the two cells (0,2) and
\* (2,0).
C7_Original ==
  C7_Scenario => ret.locals.unaligned_cells = {<<0, 2>>, <<2, 0>>}

\* C7 amended: the unaligned-maxima selection is the four cells (0,1),
\* (0,2), (2,0) and (2,1): every off-diagonal cell of the rows of the inlier
\* channels 0 and 2, column 1 included; no cell of row 1 is selected, and
\* unaligned_maximizer_loss is the sum of those four probabilities.
C7_UnalignedRowsOfInliers ==
  C7_Scenario =>
    /\ ret.locals.unaligned_cells = {<<0, 1>>, <<0, 2>>, <<2, 0>>, <<2, 1>>}
    /\ UnitFootprints =>
         ret.components["unaligned_maximizer_loss"] =
           Some(SumSet({<<0, 1>>, <<0, 2>>, <<2, 0>>, <<2, 1>>}, ScoreProb))

\* Witness of C7: the scenario, with 1 x 1 footprints and a non-zero
\* unaligned term.
C7_Witness ==
  /\ C7_Scenario
  /\ UnitFootprints
  /\ ret.components["unaligned_maximizer_loss"] # Some(0)

\* C8: of a returned Variant A call, the maxima-inlier selection is the
\* cells (c * N, c) of the inlier channels c, one per inlier channel, at the
\* first patch of its block, and inlier_maximizer_loss is the floored
\* negative log-likelihood summed over those cells.
C8_MaximaInlierAtFirstPatch ==
  (Returned /\ args.variant = "A") =>
    /\ ret.locals.maxima_inlier_cells =
         {<<c * NumPatches, c>> : c \in InlierChannels}
    /\ (UnitFootprints /\ InlierChannels # {}) =>
         ret.components["inlier_maximizer_loss"] =
           Some(SumSet({<<c * NumPatches, c>> : c \in InlierChannels},
                       LAMBDA cell : NegLogFloored(ScoreProb(cell))))

\* Witness of C8: C = 2, N = 2, both channels inlier: the selection is the
\* cells in rows 0 and 2.
C8_Witness ==
  /\ Returned
  /\ args.variant = "A"
  /\ NumChannels = 2
  /\ NumRows = 4
  /\ InlierChannels = {0, 1}
  /\ UnitFootprints
  /\ ret.locals.maxima_inlier_cells = {<<0, 0>>, <<2, 1>>}
  /\ ret.components["inlier_maximizer_loss"] # None

\* A 2-D tensor given the trailing 1 x 1 footprint (same values).
WithUnitFootprint(t) ==
  IF Len(t.shape) # 2 THEN t
  ELSE [shape |-> t.shape \o <<1, 1>>,
        data |-> [ix \in IdxSet(t.shape \o <<1, 1>>) |->
                    t.data[<<ix[1], ix[2]>>]]]

\* What the call returns when its tensors are given the 1 x 1 footprint.
WithUnitFootprintResult ==
  IF args.variant = "A"
  THEN ForwardClassic(WithUnitFootprint(args.maximizer_outputs),
                      WithUnitFootprint(args.correspondence_outputs),
                      args.inlier_labels, args.outlier_labels, classic_epsilon)
  ELSE ForwardBCE(weights, WithUnitFootprint(args.maximizer_outputs),
                  WithUnitFootprint(args.correspondence_outputs),
                  args.inlier_labels, args.outlier_labels).ret

BadScoreShape ==
  \/ NumRows % NumChannels # 0
  \/ /\ Len(args.maximizer_outputs.shape) = 4
     /\ args.maximizer_outputs.shape[3] # args.maximizer_outputs.shape[4]

\* C10: a call whose score tensor has B not divisible by C or a non-square
\* footprint raises AssertionError before anything is computed: it returns
\* no total, no components, has computed no selection, and leaves the
\* weight cache as it was before the call.
C10_BadShapeFailsFast ==
  [][(pc = "idle" /\ pc' = "done" /\ BadScoreShape') =>
       /\ ret'.status = "AssertionError"
       /\ ret'.total = None
       /\ ret'.components = <<>>
       /\ ret'.locals = <<>>
       /\ weights' = weights]_vars

\* Witness of C10: a Variant B call on a score tensor with B not divisible
\* by C raised AssertionError, the cache holding an entry besides the seed.
C10_Witness ==
  /\ pc = "done"
  /\ args.variant = "B"
  /\ NumRows % NumChannels # 0
  /\ ret.status = "AssertionError"
  /\ DOMAIN weights # {"1"}

\* The call's correspondence tensor carries a footprint whose height is not
\* its width.
NonSquareCorrFootprint ==
  /\ Len(args.correspondence_outputs.shape) = 4
  /\ args.correspondence_outputs.shape[3] # args.correspondence_outputs.shape[4]

\* C11 as claimed: a call whose correspondence tensor has a non-square
\* footprint is rejected: it raises and returns no loss.
C11_CorrFootprintSquareEnforced ==
  (pc = "done" /\ NonSquareCorrFootprint) =>
    /\ ret.status # "ok"
    /\ ret.total = None

\* The result of the call, had it been made on an instance fresh from
\* __init__ (every N >= 2 a cache miss), and the result of the same call
\* made once more on the instance as it is now (the call's N a cache hit).
FirstCallResult ==
  IF args.variant = "A"
  THEN ForwardClassic(args.maximizer_outputs, args.correspondence_outputs,
                      args.inlier_labels, args.outlier_labels, Epsilon)
  ELSE ForwardBCE(InitWeights, args.maximizer_outputs,
                  args.correspondence_outputs,
                  args.inlier_labels, args.outlier_labels).ret

RepeatedCallResult ==
  IF args.variant = "A"
  THEN ForwardClassic(args.maximizer_outputs, args.correspondence_outputs,
                      args.inlier_labels, args.outlier_labels, classic_epsilon)
  ELSE ForwardBCE(weights, args.maximizer_outputs,
                  args.correspondence_outputs,
                  args.inlier_labels, args.outlier_labels).ret

\* C12: whatever calls came before, a call gives the result (total,
\* components with their presence or absence, or the exception) that the
\* same inputs give on a fresh instance, where the weight lookup is a cache
\* miss, and that they give when the call is repeated, where it is a cache
\* hit: two calls with identical inputs return identical values.
C12_RepeatedCallSameResult ==
  pc = "done" =>
    /\ ret = FirstCallResult
    /\ ret = RepeatedCallResult

\* Witness of C12: a Variant B call with N = 2 returned a maxima term in
\* which the cached outlier weight was used.
C12_Witness ==
  /\ Returned
  /\ args.variant = "B"
  /\ NumPatches = 2
  /\ Str(2) \in DOMAIN weights
  /\ ret.components["bce_maximizer_loss"] # None
  /\ \E k \in DOMAIN ret.locals.maxima_bce_labels :
       /\ ret.locals.maxima_bce_labels[k] = 0
       /\ ret.locals.maxima_weights[k] # 10000

WeightOf(n) == IF n = 1 THEN 10000 ELSE WeightFormula(n)

\* The outlier weight a returned Variant B call used: the weight at the
\* samples of target 0.
OutlierWeightsUsed ==
  {ret.locals.maxima_weights[k] :
     k \in {j \in DOMAIN ret.locals.maxima_bce_labels :
              ret.locals.maxima_bce_labels[j] = 0}}

\* In every state of a sequence of calls the cache holds the seed entry and,
\* under each key str(N), the closed form of N; a lookup returned that value.
C14_CacheHoldsClosedForm ==
  /\ Str(1) \in DOMAIN weights
  /\ DOMAIN weights \subseteq {Str(n) : n \in 1..MaxN}
  /\ \A n \in 1..MaxN :
       Str(n) \in DOMAIN weights => weights[Str(n)] = WeightOf(n)
  /\ (Returned /\ args.variant = "B") =>
       OutlierWeightsUsed \subseteq {WeightOf(NumPatches)}

\* Every step keeps every key with its value, and adds at most one key, which
\* the cache did not hold: the closed form is evaluated only on a miss.
C14_CacheStep ==
  /\ DOMAIN weights \subseteq DOMAIN weights'
  /\ \A key \in DOMAIN weights : weights'[key] = weights[key]
  /\ Cardinality(DOMAIN weights') <= Cardinality(DOMAIN weights) + 1
  /\ weights' # weights =>
       /\ pc = "idle" /\ pc' = "done" /\ args'.variant = "B"
       /\ LET N == ret'.locals.num_patches_per_channel
          IN /\ CacheMiss(weights, N)
             /\ weights' = CacheStore(weights, N, WeightFormula(N))

\* C14: across any sequence of Variant B calls on one instance the weight
\* cache is append-only and never invalidated: its key set only grows, it
\* always holds the seed entry of N = 1, no entry is overwritten or removed,
\* the closed form is evaluated at most once per N (only when N's key is
\* missing, and the key stays), and every lookup for N returns one value,
\* the closed form of N (the seed 1.0 for N = 1).
C14_CacheAppendOnly == []C14_CacheHoldsClosedForm /\ [][C14_CacheStep]_vars

\* Witness of C14: after an earlier call inserted the weight of N = 2, a
\* Variant B call with N = 1 looked up its weight: the cache still holds
\* both entries, and the lookup returned the seed.
C14_Witness ==
  /\ Returned
  /\ args.variant = "B"
  /\ NumPatches = 1
  /\ DOMAIN weights = {Str(1), Str(2)}
  /\ weights[Str(2)] = WeightFormula(2)
  /\ OutlierWeightsUsed = {10000}

\* Thread t is between the membership test that missed the key of N and the
\* completion of its insert.
BetweenTestAndInsert(t, n) ==
  /\ threads[t].pc \in {"compute", "insert"}
  /\ threads[t].num_patches_per_channel = n

\* C15 as claimed: under every interleaving of concurrent lookups the
\* check-compute-insert of a new N is mutually exclusive: no two threads are
\* at once between the membership test and the insert for the same N, and no
\* thread is about to insert a weight whose key the cache already holds (the
\* weight of each N is computed and inserted at most once).
C15_GuardedFirstInsert ==
  /\ \A t \in Threads, u \in Threads, n \in 1..MaxN :
       (BetweenTestAndInsert(t, n) /\ BetweenTestAndInsert(u, n)) => t = u
  /\ \A t \in Threads :
       threads[t].pc = "insert" =>
         CacheMiss(weights, threads[t].num_patches_per_channel)

\* In every state of the concurrent lookups: every weight returned is the
\* weight of the thread's own N; the dictionary read of the return statement
\* never misses; the cache holds the seed and one entry, the closed form,
\* for every N whose lookup has completed, and no key that is not an N.
C16_ResultsBelongToOwnN ==
  /\ Str(1) \in DOMAIN weights
  /\ DOMAIN weights \subseteq {Str(n) : n \in 1..MaxN}
  /\ \A n \in 1..MaxN :
       Str(n) \in DOMAIN weights => weights[Str(n)] = WeightOf(n)
  /\ \A t \in Threads :
       /\ threads[t].pc = "return" =>
            ~CacheMiss(weights, threads[t].num_patches_per_channel)
       /\ threads[t].result # None =>
            /\ threads[t].result =
                 Some(WeightOf(threads[t].num_patches_per_channel))
            /\ ~CacheMiss(weights, threads[t].num_patches_per_channel)

\* Every step of the concurrent lookups: the cache is written only by the
\* store of a thread whose membership test missed, and the store puts the
\* closed form of that thread's N under that N's key, every other entry
\* kept; a lookup whose membership test finds its N goes to the return
\* statement; the return statement writes nothing and returns the weight of
\* the thread's own N.
C16_LookupStep ==
  /\ DOMAIN weights \subseteq DOMAIN weights'
  /\ weights' # weights =>
       \E t \in Threads :
         /\ threads[t].pc = "insert" /\ threads'[t].pc = "return"
         /\ threads[t].num_patches_per_channel >= 2
         /\ weights' =
              CacheStore(weights, threads[t].num_patches_per_channel,
                         WeightOf(threads[t].num_patches_per_channel))
  /\ \A t \in Threads :
       /\ (/\ threads[t].pc = "test"
           /\ threads'[t].pc # "test"
           /\ ~CacheMiss(weights, threads[t].num_patches_per_channel)) =>
            /\ threads'[t].pc = "return"
            /\ weights' = weights
       /\ (threads[t].pc = "return" /\ threads'[t].pc # "return") =>
            /\ weights' = weights
            /\ threads'[t].result =
                 Some(WeightOf(threads[t].num_patches_per_channel))

\* C16: concurrent lookups are result-safe under every interleaving: a
\* lookup that finds its N in the cache writes nothing, every lookup returns
\* the weight of its own N (never another N's, never a missing entry), and
\* the cache ends with one entry per N requested besides the seed.
C16_ConcurrentLookupsResultSafe ==
  []C16_ResultsBelongToOwnN /\ [][C16_LookupStep]_vars

\* Witness of C16: two threads raced on N = 2: one has returned with the
\* weight of N = 2 while the other, whose test also missed, is about to
\* store the weight again.
C16_Witness ==
  \E t \in Threads, u \in Threads :
    /\ t # u
    /\ threads[t].pc = "idle"
    /\ threads[t].num_patches_per_channel = 2
    /\ threads[t].result = Some(WeightFormula(2))
    /\ threads[u].pc = "insert"
    /\ threads[u].num_patches_per_channel = 2
    /\ ~CacheMiss(weights, 2)

\* C17: in every reachable state the cache holds the entry of N = 1 with the
\* value 1.0, so a lookup for N = 1 never misses and the closed form is never
\* evaluated at N = 1: no entry of the cache is the not-a-number the formula
\* gives there, and a Variant B call with N = 1 uses the weight 1.0.
C17_FormulaNeverAtOne ==
  /\ ~CacheMiss(weights, 1)
  /\ weights[Str(1)] = 10000
  /\ \A key \in DOMAIN weights : ~IsNaN(weights[key])
  /\ GetBceMaximaOutlierWeight(weights, 1) = [cache |-> weights, weight |-> 10000]
  /\ (Returned /\ args.variant = "B" /\ NumPatches = 1) =>
       /\ OutlierWeightsUsed \subseteq {10000}
       /\ ~IsNaN(ret.total[1])

\* Witness of C17: a Variant B call with N = 1 (B = C) on an instance whose
\* cache holds the seed alone returned a maxima term with outlier samples.
C17_Witness ==
  /\ Returned
  /\ args.variant = "B"
  /\ NumPatches = 1
  /\ NumRows = NumChannels
  /\ DOMAIN weights = {Str(1)}
  /\ OutlierWeightsUsed = {10000}
  /\ ret.components["bce_maximizer_loss"] # None

\* The patches per channel of the call being made (of a call that passed the
\* shape assertions).
NumPatchesNext == args'.maximizer_outputs.shape[1] \div args'.maximizer_outputs.shape[2]

\* C18: no cross-call state except epsilon and the weight cache.  No step
\* changes either epsilon; a Variant A call leaves the cache as it was; a
\* Variant B call leaves it as it was or adds one entry, the closed form of
\* the call's own N, and only when the call returned, its maxima selection
\* was not empty and N was not cached; taking the result changes nothing.
C18_NoCrossCallState ==
  [][/\ classic_epsilon' = classic_epsilon
     /\ bce_epsilon' = bce_epsilon
     /\ threads' = threads
     /\ pc = "done" => weights' = weights
     /\ (pc = "idle" /\ pc' = "done" /\ args'.variant = "A") =>
          weights' = weights
     /\ (pc = "idle" /\ pc' = "done" /\ args'.variant = "B") =>
          IF /\ ret'.status = "ok"
             /\ ret'.locals.maxima_bce_labels # <<>>
             /\ CacheMiss(weights, NumPatchesNext)
          THEN /\ weights' =
                    CacheStore(weights, NumPatchesNext,
                               WeightFormula(NumPatchesNext))
               /\ DOMAIN weights' = DOMAIN weights \cup {Str(NumPatchesNext)}
               /\ Cardinality(DOMAIN weights') = Cardinality(DOMAIN weights) + 1
          ELSE weights' = weights]_vars

\* Witness of C18: a Variant B call with N = 2 whose maxima selection is
\* empty (no channel has data) returned, and the cache still holds the seed
\* alone.
C18_Witness ==
  /\ Returned
  /\ args.variant = "B"
  /\ NumPatches = 2
  /\ InlierChannels \cup OutlierChannels = {}
  /\ ret.locals.maxima_bce_labels = <<>>
  /\ DOMAIN weights = {Str(1)}

\* C19: of every returned call, in both variants, the unaligned-maxima
\* selection is the set of cells (c, c') with c an inlier channel and
\* c' # c: no diagonal cell, no cell in the row of a channel that is not
\* inlier, (number of inlier channels) * (C - 1) cells; both variants are
\* held to the same set.  In Variant A the term is the sum of the
\* probabilities at row c * N, column c', of the score tensor.
C19_UnalignedOffDiagonalOfInlierRows ==
  Returned =>
    /\ ret.locals.unaligned_cells =
         {cell \in InlierChannels \X Channels : cell[1] # cell[2]}
    /\ \A c \in Channels : <<c, c>> \notin ret.locals.unaligned_cells
    /\ \A cell \in ret.locals.unaligned_cells : args.inlier_labels[cell[1]]
    /\ Cardinality(ret.locals.unaligned_cells) =
         Cardinality(InlierChannels) * (NumChannels - 1)
    /\ (args.variant = "A" /\ UnitFootprints) =>
         ret.components["unaligned_maximizer_loss"] =
           Some(SumSet({cell \in InlierChannels \X Channels : cell[1] # cell[2]},
                       LAMBDA cell :
                         ScoreProb(<<cell[1] * NumPatches, cell[2]>>)))

\* Witness of C19: a Variant B call with C = 3 and N = 2 whose only inlier
\* channel is channel 1 returned: the selection is the cells (1,0), (1,2).
C19_Witness ==
  /\ Returned
  /\ args.variant = "B"
  /\ NumChannels = 3
  /\ NumPatches = 2
  /\ InlierChannels = {1}
  /\ ret.locals.unaligned_cells = {<<1, 0>>, <<1, 2>>}
  /\ ret.components["unaligned_maximizer_loss"] # None

\* The has-data flag of row r: its channel r div N is inlier or outlier.
HasDataRow(r) ==
  IF args.inlier_labels[r \div NumPatches] \/ args.outlier_labels[r \div NumPatches]
  THEN 1 ELSE 0

\* The number of rows of channel c's block that a 0/1 vector over the rows
\* marks.
BlockCount(v, c) ==
  Cardinality({r \in (c * NumPatches)..(c * NumPatches + NumPatches - 1) :
                 v[r] # 0})

\* C20: of every returned call, the expanded inlier vector has length
\* B = C * N, holds inlier_labels[c] at index c * N and 0 elsewhere;
\* Variant B's expanded has-data mask is (inlier or outlier) of channel
\* r div N at every row r; Variant A's expanded outlier mask is has-data and
\* not expanded-inlier, so that it is disjoint from the expanded inlier
\* vector, their union is the has-data mask, and a channel's block holds
\* N - 1 expanded-outlier rows if the channel is inlier (labelled outlier as
\* well or not), N if it is outlier only, none if it has no label.
C20_LabelExpansion ==
  Returned =>
    LET ei == ret.locals.expanded_inlier_labels
    IN /\ DOMAIN ei = 0..(NumRows - 1)
       /\ NumRows = NumChannels * NumPatches
       /\ \A r \in DOMAIN ei :
            ei[r] = IF r % NumPatches = 0 /\ args.inlier_labels[r \div NumPatches]
                    THEN 1 ELSE 0
       /\ args.variant = "B" =>
            ret.locals.expanded_has_data_labels =
              [r \in 0..(NumRows - 1) |-> HasDataRow(r)]
       /\ args.variant = "A" =>
            LET eo == ret.locals.expanded_outlier_labels
            IN /\ eo = [r \in 0..(NumRows - 1) |->
                          IF HasDataRow(r) = 1 /\ ei[r] = 0 THEN 1 ELSE 0]
               /\ \A r \in DOMAIN eo :
                    /\ ~(ei[r] = 1 /\ eo[r] = 1)
                    /\ (ei[r] = 1 \/ eo[r] = 1) <=> HasDataRow(r) = 1
               /\ \A c \in Channels :
                    BlockCount(eo, c) =
                      IF args.inlier_labels[c] THEN NumPatches - 1
                      ELSE IF args.outlier_labels[c] THEN NumPatches
                      ELSE 0

\* Witness of C20: a Variant A call with N = 2 returned in which channel 0 is
\* labelled both inlier and outlier and channel 1 outlier only: one
\* expanded-outlier row in channel 0's block, two in channel 1's.
C20_Witness ==
  /\ Returned
  /\ args.variant = "A"
  /\ NumPatches = 2
  /\ NumChannels >= 2
  /\ args.inlier_labels[0] /\ args.outlier_labels[0]
  /\ ~args.inlier_labels[1] /\ args.outlier_labels[1]
  /\ BlockCount(ret.locals.expanded_outlier_labels, 0) = 1
  /\ BlockCount(ret.locals.expanded_outlier_labels, 1) = 2

\* The maxima-outlier cells of a returned Variant A call that lie in
\* column c, and the divisor of channel c: their number, floored at 1.
OutlierCellsOf(c) == {cell \in ret.locals.maxima_outlier_cells : cell[2] = c}

OutlierDivisor(c) ==
  IF Cardinality(OutlierCellsOf(c)) >= 1 THEN Cardinality(OutlierCellsOf(c))
  ELSE 1

\* The share of channel c in the maxima-outlier term: the summed penalty
\* -log(max(1 - p, epsilon)) of its selected cells over its divisor.
OutlierShare(c) ==
  SumSet(OutlierCellsOf(c),
         LAMBDA cell : NegLogFloored(10000 - ScoreProb(cell)))
    \div OutlierDivisor(c)

\* C21: of every returned Variant A call, the selected maxima-outlier cells
\* of channel c all lie in column c within the rows c * N .. c * N + N - 1
\* of its own block; every channel's divisor, its count of selected cells
\* floored at 1, is at least 1; the term is the sum over the channels of the
\* channel's summed penalty divided by the channel's own divisor, and a
\* channel with no selected cell contributes exactly 0.
C21_OutlierTermPerChannelMean ==
  (Returned /\ args.variant = "A") =>
    /\ \A cell \in ret.locals.maxima_outlier_cells :
         /\ cell[2] \in Channels
         /\ cell[1] \in (cell[2] * NumPatches)..(cell[2] * NumPatches + NumPatches - 1)
    /\ \A c \in Channels : OutlierDivisor(c) >= 1
    /\ UnitFootprints =>
         /\ \A c \in Channels : OutlierCellsOf(c) = {} => OutlierShare(c) = 0
         /\ ret.locals.maxima_outlier_cells # {} =>
              ret.components["outlier_maximizer_loss"] =
                Some(SumSet(Channels, OutlierShare))

\* Witness of C21: a Variant A call with N = 2 returned in which channel 0
\* is outlier (two selected cells, divisor 2) with a positive share,
\* channel 1 inlier (one selected cell) and a further channel has no label
\* (no selected cell, divisor floored at 1).
C21_Witness ==
  /\ Returned
  /\ args.variant = "A"
  /\ UnitFootprints
  /\ NumPatches = 2
  /\ NumChannels = 3
  /\ OutlierCellsOf(0) = {<<0, 0>>, <<1, 0>>}
  /\ OutlierCellsOf(1) = {<<3, 1>>}
  /\ OutlierCellsOf(2) = {}
  /\ OutlierShare(0) > 0
  /\ ret.components["outlier_maximizer_loss"] # None

\* The rows of the call whose channel has data, in ascending order.
HasDataRows ==
  SelectSeq([k \in 1..NumRows |-> k - 1], LAMBDA r : HasDataRow(r) = 1)

\* The logit of score cell (r, c), under 1 x 1 footprints.
ScoreLogit(cell) == args.maximizer_outputs.data[<<cell[1], cell[2], 0, 0>>]

\* The expanded inlier label of row r: the inlier label of its channel if r
\* is the first row of the channel's block, else 0.
ExpandedInlierRow(r) ==
  IF r % NumPatches = 0 /\ args.inlier_labels[r \div NumPatches] THEN 1 ELSE 0

\* C22: of every returned call.  Variant B's maxima term has one sample per
\* row r whose channel has data, the cell (r, r div N), N * (number of
\* has-data channels) samples in all; the target list and the weight list
\* have that length and the rows' ascending order: the k-th target is the
\* expanded inlier label of the k-th has-data row, the k-th weight 1.0 if
\* that target is 1 and w(N) otherwise; the term is the sum over those rows
\* of the weighted BCE of the score at (r, r div N) against the row's
\* target.  Variant A's maxima-inlier and maxima-outlier selections are
\* disjoint and their union is that same set of cells.
C22_MaximaSamplesPairedByRow ==
  Returned =>
    LET samples == {<<r, r \div NumPatches>> :
                      r \in {q \in 0..(NumRows - 1) : HasDataRow(q) = 1}}
        rows == HasDataRows
        w == WeightOf(NumPatches)
    IN /\ Cardinality(samples) =
            NumPatches * Cardinality(InlierChannels \cup OutlierChannels)
       /\ args.variant = "A" =>
            /\ ret.locals.maxima_inlier_cells \cup ret.locals.maxima_outlier_cells
                 = samples
            /\ ret.locals.maxima_inlier_cells \cap ret.locals.maxima_outlier_cells
                 = {}
       /\ args.variant = "B" =>
            /\ ret.locals.maxima_has_data_cells = samples
            /\ Len(ret.locals.maxima_bce_labels) = Len(rows)
            /\ Len(rows) = Cardinality(samples)
            /\ ret.locals.maxima_bce_labels =
                 [k \in 1..Len(rows) |-> ExpandedInlierRow(rows[k])]
            /\ rows # <<>> =>
                 ret.locals.maxima_weights =
                   [k \in 1..Len(rows) |->
                      IF ExpandedInlierRow(rows[k]) = 1 THEN 10000 ELSE w]
            /\ (UnitFootprints /\ rows # <<>>) =>
                 ret.components["bce_maximizer_loss"] =
                   Some(SumSeq([k \in 1..Len(rows) |->
                      BceWithLogits(
                        ScoreLogit(<<rows[k], rows[k] \div NumPatches>>),
                        ExpandedInlierRow(rows[k]),
                        IF ExpandedInlierRow(rows[k]) = 1 THEN 10000 ELSE w)]))

\* Witness of C22: a Variant B call with C = 3 and N = 2 returned in which
\* channel 0 has no label, channel 1 is outlier and channel 2 inlier: four
\* samples, rows 2, 3, 4, 5, with targets 0, 0, 1, 0.
C22_Witness ==
  /\ Returned
  /\ args.variant = "B"
  /\ UnitFootprints
  /\ NumChannels = 3
  /\ NumPatches = 2
  /\ HasDataRows = <<2, 3, 4, 5>>
  /\ ret.locals.maxima_has_data_cells =
       {<<2, 1>>, <<3, 1>>, <<4, 2>>, <<5, 2>>}
  /\ ret.locals.maxima_bce_labels = <<0, 0, 1, 0>>
  /\ ret.locals.maxima_weights =
       <<WeightFormula(2), WeightFormula(2), 10000, WeightFormula(2)>>

\* The tensor carries an S x S footprint.
SquareFootprint(t) == Len(t.shape) = 4 /\ t.shape[3] = t.shape[4]

\* The 1 x 1 tensor that holds, for every (row, channel), the cell at spatial
\* index ((S - 1) div 2, (S - 1) div 2) of an S x S tensor.
CenterOnly(t) ==
  LET S == t.shape[3]
  IN [shape |-> <<t.shape[1], t.shape[2], 1, 1>>,
      data |-> [ix \in IdxSet(<<t.shape[1], t.shape[2], 1, 1>>) |->
                  t.data[<<ix[1], ix[2], (S - 1) \div 2, (S - 1) \div 2>>]]]

\* What the call returns on the 1 x 1 tensors holding those cells.
CenterOnlyResult ==
  IF args.variant = "A"
  THEN ForwardClassic(CenterOnly(args.maximizer_outputs),
                      CenterOnly(args.correspondence_outputs),
                      args.inlier_labels, args.outlier_labels, classic_epsilon)
  ELSE ForwardBCE(weights, CenterOnly(args.maximizer_outputs),
                  CenterOnly(args.correspondence_outputs),
                  args.inlier_labels, args.outlier_labels).ret

\* The call's tensors carry square footprints, one of them at least with
\* S # 1.
LargeSquareFootprints ==
  /\ SquareFootprint(args.maximizer_outputs)
  /\ SquareFootprint(args.correspondence_outputs)
  /\ \/ args.maximizer_outputs.shape[3] # 1
     \/ args.correspondence_outputs.shape[3] # 1

\* C23: a call on tensors with an S x S footprint, S # 1, gives the result
\* (total, components, or the exception) of the call on the 1 x 1 tensors
\* that hold the cells at spatial index ((S - 1) div 2, (S - 1) div 2): no
\* other footprint cell has any influence, so two calls that agree on those
\* cells return identical losses; for odd S the cell is the exact center,
\* with (S - 1) / 2 cells on either side.
C23_OnlyCenterCellCounts ==
  (pc = "done" /\ LargeSquareFootprints) =>
    /\ ret.status = CenterOnlyResult.status
    /\ ret.total = CenterOnlyResult.total
    /\ ret.components = CenterOnlyResult.components
    /\ \A t \in {args.maximizer_outputs, args.correspondence_outputs} :
         t.shape[3] % 2 = 1 =>
           ((t.shape[3] - 1) \div 2) + 1 + ((t.shape[3] - 1) \div 2) = t.shape[3]

\* Witness of C23: a Variant A call on tensors with 3 x 3 footprints
\* returned an inlier term for a channel whose score at the center cell
\* (1, 1) is not its score at the corner cell (0, 0).
C23_Witness ==
  /\ Returned
  /\ args.variant = "A"
  /\ args.maximizer_outputs.shape[3] = 3
  /\ args.correspondence_outputs.shape[3] = 3
  /\ ret.components["inlier_maximizer_loss"] # None
  /\ \E c \in InlierChannels :
       args.maximizer_outputs.data[<<c * NumPatches, c, 1, 1>>]
         # args.maximizer_outputs.data[<<c * NumPatches, c, 0, 0>>]

\* C24 as claimed: for every valid batch, C = 1 and B = C = 1 included,
\* shape normalisation leaves the score tensor 2-D of shape (B, C) and the
\* correspondence tensor 2-D of shape (C, C), num_patches_per_channel is
\* B div C, and the call returns a loss.
C24_DecodeKeepsBatchAndChannel ==
  (pc = "done" /\ ValidBatch) =>
    LET dec == Decode(args.maximizer_outputs, args.correspondence_outputs)
    IN /\ dec.status = "ok"
       /\ dec.mo.shape = <<NumRows, NumChannels>>
       /\ dec.co.shape = <<NumChannels, NumChannels>>
       /\ ret.status = "ok"
       /\ ret.locals.num_patches_per_channel = NumRows \div NumChannels

====
